---- MODULE Spec2Model ----
(***************************************************************************)
(* The crossfade widget of src/script.js: two looping buffer sources       *)
(* ("above", "below") behind two gain nodes, a one-shot splash source, a   *)
(* play/pause toggle, a scrub slider and a requestAnimationFrame loop.     *)
(*                                                                         *)
(* Time is counted in milliseconds, so that every number of the script is  *)
(* an integer: 0.001 s = 1, 0.01 s = 10, 1 s = 1000.  A gain of 1 is       *)
(* GainOne, so that the values of a linear ramp are integers too.          *)
(* An AudioBuffer is modelled by its duration, the only property the       *)
(* script reads; a missing buffer (null) is NoBuf.  A nullable reference   *)
(* is a sequence of length at most one: None is null, Some(x) refers to x. *)
(***************************************************************************)
EXTENDS Integers, Sequences, FiniteSets, TLC

\* ------------------------------------------------------------- bounds
MaxTime    == 1    \* the audio clock runs from 0 to MaxTime
MaxPending == 1    \* suspend/resume requests in flight
MaxSplash  == 1    \* splash sources playing at once

\* The audio files the model loads: above.wav is shorter than 0.01 s,
\* below.wav is longer.
FileDuration == [above |-> 3, below |-> 1500, splash |-> 1]

\* -------------------------------------------------- program constants
DefaultFadeMs      == 1000   \* fadeDuration = ref(1000)
DefaultProgressMax == 1000   \* progressMax = ref(1), and 1 for a missing buffer
MinProgressMax     == 10     \* Math.max(0.01, buf.duration)
MinFadeMs          == 1      \* Math.max(0.001, ...)
FallbackFadeMs     == 1000   \* ... : 1 when fadeDuration is not finite
GainOne            == 1000   \* a gain of 1

Tracks == {"above", "below"}
NoBuf  == 0
None   == <<>>
Some(x) == <<x>>
IsNull(r) == r = <<>>
Val(r) == r[1]

Max2(a, b) == IF a >= b THEN a ELSE b

\* JavaScript's %: the result has the sign of the dividend.
JsRem(a, b) == IF a >= 0 THEN a % b ELSE -((-a) % b)

\* x || 0 for a number x.
OrZero(x) == IF x = 0 THEN 0 ELSE x

VARIABLES
    \* the script's variables
    active, fadeDuration, isPlaying, progress, progressMax, progressEnabled,
    isScrubbing, audioCtx, aboveBuffer, belowBuffer, splashBuffer,
    aboveSource, belowSource, aboveGain, belowGain, playbackBaseTime, rafId,
    \* the platform
    now,         \* audioCtx.currentTime
    pending,     \* suspend()/resume() promises not yet settled, oldest first
    playing,     \* per track: looping sources started and not stopped
    splashes,    \* splash sources that have not ended
    rafPending,  \* animation-frame callbacks requested and not yet run
    \* the component
    pc,          \* where the async onMounted callback stands
    unmounted,   \* onUnmounted has run
    \* history
    sincePause   \* "yes" when the last togglePlay call paused the loaded
                 \* page (onMounted had run to its end) and no scrub event
                 \* came since, "no" otherwise; "untracked" in the
                 \* specifications that keep no history

scriptVars == <<active, fadeDuration, isPlaying, progress, progressMax,
               progressEnabled, isScrubbing, audioCtx, aboveBuffer, belowBuffer,
               splashBuffer, aboveSource, belowSource, aboveGain, belowGain,
               playbackBaseTime, rafId>>
platformVars == <<now, pending, playing, splashes, rafPending>>
vars == <<scriptVars, platformVars, pc, unmounted, sincePause>>

\* The state the functions of the script read and write, as one record.
Cur ==
    [active |-> active, fadeDuration |-> fadeDuration, isPlaying |-> isPlaying,
     progress |-> progress, progressMax |-> progressMax,
     progressEnabled |-> progressEnabled, isScrubbing |-> isScrubbing,
     audioCtx |-> audioCtx, aboveBuffer |-> aboveBuffer,
     belowBuffer |-> belowBuffer, splashBuffer |-> splashBuffer,
     aboveSource |-> aboveSource, belowSource |-> belowSource,
     aboveGain |-> aboveGain, belowGain |-> belowGain,
     playbackBaseTime |-> playbackBaseTime, rafId |-> rafId,
     now |-> now, pending |-> pending, playing |-> playing,
     splashes |-> splashes, rafPending |-> rafPending]

Set(s) ==
    /\ active' = s.active
    /\ fadeDuration' = s.fadeDuration
    /\ isPlaying' = s.isPlaying
    /\ progress' = s.progress
    /\ progressMax' = s.progressMax
    /\ progressEnabled' = s.progressEnabled
    /\ isScrubbing' = s.isScrubbing
    /\ audioCtx' = s.audioCtx
    /\ aboveBuffer' = s.aboveBuffer
    /\ belowBuffer' = s.belowBuffer
    /\ splashBuffer' = s.splashBuffer
    /\ aboveSource' = s.aboveSource
    /\ belowSource' = s.belowSource
    /\ aboveGain' = s.aboveGain
    /\ belowGain' = s.belowGain
    /\ playbackBaseTime' = s.playbackBaseTime
    /\ rafId' = s.rafId
    /\ now' = s.now
    /\ pending' = s.pending
    /\ playing' = s.playing
    /\ splashes' = s.splashes
    /\ rafPending' = s.rafPending

\* The bounds of the model, as a guard on the state an operation produces.
WithinBounds(s) ==
    /\ Len(s.pending) <= MaxPending
    /\ Len(s.splashes) <= MaxSplash

\* ------------------------------------------------------- AudioParam
\* A gain's AudioParam: the value of the last render and its automation
\* events, in time order.
NewGain(v) == [value |-> v, events |-> <<>>]

cancelScheduledValues(g, t) ==
    [g EXCEPT !.events = SelectSeq(@, LAMBDA e : e.time < t)]

setValueAtTime(g, v, t) ==
    [g EXCEPT !.events = Append(@, [type |-> "set", value |-> v, time |-> t])]

linearRampToValueAtTime(g, v, t) ==
    [g EXCEPT !.events = Append(@, [type |-> "ramp", value |-> v, time |-> t])]

\* The value the automation gives the param at time t.
ValueAt(g, t) ==
    LET past   == SelectSeq(g.events, LAMBDA e : e.time <= t)
        future == SelectSeq(g.events, LAMBDA e : e.time > t)
        v0     == IF past = <<>> THEN g.value ELSE past[Len(past)].value
        t0     == IF past = <<>> THEN t ELSE past[Len(past)].time
    IN  IF future # <<>> /\ future[1].type = "ramp"
        THEN v0 + ((future[1].value - v0) * (t - t0)) \div (future[1].time - t0)
        ELSE v0

\* One render at time t: the value is recomputed; events the clock has
\* passed are dropped, but for the one a pending ramp starts from.
Render(g, t) ==
    LET past   == SelectSeq(g.events, LAMBDA e : e.time <= t)
        future == SelectSeq(g.events, LAMBDA e : e.time > t)
    IN  [value  |-> ValueAt(g, t),
         events |-> IF future = <<>> THEN <<>>
                    ELSE (IF past = <<>> THEN <<>> ELSE <<past[Len(past)]>>) \o future]

\* The value the param ends at: its value when nothing is scheduled,
\* otherwise the value of its last event.
FinalValue(g) ==
    IF g.events = <<>> THEN g.value ELSE g.events[Len(g.events)].value

RampPending(g) == g.events # <<>>

\* Where a looping source started at src.start with offset src.off stands
\* in its buffer at time t (the clock only advances while audio is rendered).
PlaybackPosition(src, duration, t) == (src.off + (t - src.start)) % duration

\* --------------------------------------------------------- the script
BufferOf(s, track) == IF track = "above" THEN s.aboveBuffer ELSE s.belowBuffer
SourceOf(s, track) == IF track = "above" THEN s.aboveSource ELSE s.belowSource
GainOf(s, track)   == IF track = "above" THEN s.aboveGain ELSE s.belowGain
Other(track)       == IF track = "above" THEN "below" ELSE "above"

\* createLoopingNodes: null for a missing buffer, otherwise a looping source
\* started now at the wrapped offset, connected through a new gain.
\* The wrapping with a single %: negative for a negative offset.
WrapOffset_SingleRemainder(startOffset, duration) == JsRem(startOffset, duration)

WrapOffset(startOffset, duration) ==
    JsRem(JsRem(startOffset, duration) + duration, duration)

createLoopingNodes(buffer, startOffset, initialGain, currentTime) ==
    IF buffer = NoBuf THEN None
    ELSE Some([src |-> [start |-> currentTime,
                        off |-> WrapOffset(startOffset, buffer),
                        loop |-> TRUE, stopped |-> FALSE, connected |-> TRUE],
               g   |-> NewGain(initialGain)])

\* stopAndDisconnect(node) of the source a track's variable refers to: the
\* node is stopped and disconnected; a null reference or a node already
\* stopped changes nothing (the exceptions are swallowed).
StoppedNode(ref) ==
    IF IsNull(ref) THEN ref
    ELSE Some([Val(ref) EXCEPT !.stopped = TRUE, !.connected = FALSE])

StopsOne(ref) == IF ~IsNull(ref) /\ ~Val(ref).stopped THEN 1 ELSE 0

stopAndDisconnect(s, track) ==
    LET ref == SourceOf(s, track)
        s1  == [s EXCEPT !.playing[track] = @ - StopsOne(ref)]
    IN  IF track = "above" THEN [s1 EXCEPT !.aboveSource = StoppedNode(ref)]
        ELSE [s1 EXCEPT !.belowSource = StoppedNode(ref)]

\* RestartTrack without the checks for a missing buffer: nodes are created
\* around a null buffer.
RestartTrack_NoBufferCheck(s, track, offset) ==
    LET buffer == BufferOf(s, track)
        src    == [start |-> s.now,
                   off |-> IF buffer = NoBuf THEN 0 ELSE WrapOffset(offset, buffer),
                   loop |-> TRUE, stopped |-> FALSE, connected |-> TRUE]
        g      == NewGain(IF s.active = track THEN GainOne ELSE 0)
        s1     == [s EXCEPT !.playing[track] = @ + 1]
    IN  IF track = "above"
        THEN [s1 EXCEPT !.aboveSource = Some(src), !.aboveGain = Some(g)]
        ELSE [s1 EXCEPT !.belowSource = Some(src), !.belowGain = Some(g)]

\* RestartTrack with the initial gain left at createLoopingNodes' default of 1.
RestartTrack_DefaultGain(s, track, offset) ==
    LET buffer == BufferOf(s, track)
        nodes  == IF buffer # NoBuf
                  THEN createLoopingNodes(buffer, offset, GainOne, s.now)
                  ELSE None
        s1     == IF IsNull(nodes) THEN s
                  ELSE [s EXCEPT !.playing[track] = @ + 1]
        src    == IF IsNull(nodes) THEN None ELSE Some(Val(nodes).src)
        g      == IF IsNull(nodes) THEN None ELSE Some(Val(nodes).g)
    IN  IF track = "above"
        THEN [s1 EXCEPT !.aboveSource = src, !.aboveGain = g]
        ELSE [s1 EXCEPT !.belowSource = src, !.belowGain = g]

\* The part of restartSourcesAt that recreates one track's nodes.
RestartTrack(s, track, offset) ==
    LET buffer == BufferOf(s, track)
        nodes  == IF buffer # NoBuf
                  THEN createLoopingNodes(buffer, offset,
                           IF s.active = track THEN GainOne ELSE 0, s.now)
                  ELSE None
        s1     == IF IsNull(nodes) THEN s
                  ELSE [s EXCEPT !.playing[track] = @ + 1]
        src    == IF IsNull(nodes) THEN None ELSE Some(Val(nodes).src)
        g      == IF IsNull(nodes) THEN None ELSE Some(Val(nodes).g)
    IN  IF track = "above"
        THEN [s1 EXCEPT !.aboveSource = src, !.aboveGain = g]
        ELSE [s1 EXCEPT !.belowSource = src, !.belowGain = g]

\* restartSourcesAt dropping the old sources without stopping them.
restartSourcesAt_NoStop(s, offset) ==
    IF s.audioCtx = "null" THEN s
    ELSE LET s2 == [s EXCEPT !.aboveSource = None, !.belowSource = None,
                             !.aboveGain = None, !.belowGain = None]
             s3 == RestartTrack(RestartTrack(s2, "above", offset), "below", offset)
         IN  [s3 EXCEPT !.playbackBaseTime = Some(s.now - offset)]

restartSourcesAt(s, offset) ==
    IF s.audioCtx = "null" THEN s
    ELSE LET s1 == stopAndDisconnect(stopAndDisconnect(s, "above"), "below")
             s2 == [s1 EXCEPT !.aboveSource = None, !.belowSource = None,
                              !.aboveGain = None, !.belowGain = None]
             s3 == RestartTrack(RestartTrack(s2, "above", offset), "below", offset)
         IN  [s3 EXCEPT !.playbackBaseTime = Some(s.now - offset)]

\* updateProgressMax without the lower bound of 0.01 s.
updateProgressMax_NoMinimum(s) ==
    LET buf == BufferOf(s, s.active)
        pm  == IF buf # NoBuf THEN buf ELSE DefaultProgressMax
    IN  [s EXCEPT !.progressMax = pm,
                  !.progressEnabled = (buf # NoBuf),
                  !.progress = IF @ > pm THEN pm ELSE @]

updateProgressMax(s) ==
    LET buf == BufferOf(s, s.active)
        pm  == IF buf # NoBuf THEN Max2(MinProgressMax, buf) ELSE DefaultProgressMax
    IN  [s EXCEPT !.progressMax = pm,
                  !.progressEnabled = (buf # NoBuf),
                  !.progress = IF @ > pm THEN pm ELSE @]


\* audioCtx.resume() / audioCtx.suspend(): the promise joins the queue, with
\* the callbacks the caller attaches: those of onMounted, those of
\* togglePlay, or none (a bare .catch(() => {})).
Request(s, kind, then) ==
    [s EXCEPT !.pending = Append(@, [kind |-> kind, then |-> then])]

\* requestAnimationFrame(tick): at most one callback is ever outstanding, so
\* the handle is 1 and rafId is 0 (null) or 1.
RequestFrame(s) == [s EXCEPT !.rafPending = @ + 1, !.rafId = 1]

\* The position tick and togglePlay compute from the base time.
TimelinePosition(s, buf) ==
    LET t == JsRem(s.now - Val(s.playbackBaseTime), buf)
    IN  IF t < 0 THEN t + buf ELSE t

playSplash(s) ==
    IF s.audioCtx = "null" THEN s
    ELSE IF s.splashBuffer = NoBuf THEN s
    ELSE LET s1 == IF s.audioCtx = "suspended"
                   THEN Request(s, "resume", "none") ELSE s
         IN  [s1 EXCEPT !.splashes =
                 Append(@, [loop |-> FALSE, gain |-> GainOne,
                            connected |-> TRUE, ended |-> FALSE])]

\* The length of the ramps without the lower bound of 0.001 s.
RampLength_NoMinimum(fd) == IF fd.finite THEN fd.ms ELSE FallbackFadeMs

\* The length of the ramps, in ms (durSec * 1000).
RampLength(fd) ==
    Max2(MinFadeMs, IF fd.finite THEN fd.ms ELSE FallbackFadeMs)

\* The three calls crossfade makes on one gain.  The events before the new
\* setValueAtTime event decide no value from t on, and are dropped.
ScheduleRamp(ref, target, t, dur) ==
    IF IsNull(ref) THEN ref
    ELSE LET g0 == cancelScheduledValues(Val(ref), t)
             g1 == setValueAtTime(g0, Val(ref).value, t)
             g2 == linearRampToValueAtTime(g1, target, t + dur)
         IN  Some([g2 EXCEPT !.events = SelectSeq(@, LAMBDA e : e.time >= t)])

\* crossfade restarting the loops at the slider value before it fades.
crossfade_Restarts(s) ==
    LET next == IF s.active = "above" THEN "below" ELSE "above"
        s1   == [s EXCEPT !.active = next]
        s2   == restartSourcesAt(updateProgressMax(s1), OrZero(s1.progress))
        s3   == playSplash(s2)
        dur  == RampLength(s.fadeDuration)
        t    == IF s.audioCtx # "null" THEN s.now ELSE 0
    IN  [s3 EXCEPT
            !.aboveGain = ScheduleRamp(@, IF next = "above" THEN GainOne ELSE 0, t, dur),
            !.belowGain = ScheduleRamp(@, IF next = "above" THEN 0 ELSE GainOne, t, dur)]

crossfade(s) ==
    LET next == IF s.active = "above" THEN "below" ELSE "above"
        s1   == [s EXCEPT !.active = next]
        s2   == updateProgressMax(s1)
        s3   == playSplash(s2)
        dur  == RampLength(s.fadeDuration)
        t    == IF s.audioCtx # "null" THEN s.now ELSE 0
    IN  [s3 EXCEPT
            !.aboveGain = ScheduleRamp(@, IF next = "above" THEN GainOne ELSE 0, t, dur),
            !.belowGain = ScheduleRamp(@, IF next = "above" THEN 0 ELSE GainOne, t, dur)]

\* togglePlay flipping isPlaying at once, without waiting for the promise.
togglePlay_FlipsAtOnce(s) ==
    IF s.audioCtx = "null" THEN s
    ELSE IF s.isPlaying
    THEN LET buf == BufferOf(s, s.active)
             s1  == IF ~IsNull(s.playbackBaseTime) /\ buf # NoBuf
                    THEN [s EXCEPT !.progress = TimelinePosition(s, buf)]
                    ELSE s
         IN  Request([s1 EXCEPT !.isPlaying = FALSE], "suspend", "togglePlay")
    ELSE LET s1 == [s EXCEPT !.playbackBaseTime = Some(s.now - OrZero(s.progress))]
             s2 == restartSourcesAt(s1, OrZero(s.progress))
         IN  Request([s2 EXCEPT !.isPlaying = TRUE], "resume", "togglePlay")

\* togglePlay resuming from the start of the loop instead of from progress.
togglePlay_ResumesFromStart(s) ==
    IF s.audioCtx = "null" THEN s
    ELSE IF s.isPlaying
    THEN LET buf == BufferOf(s, s.active)
             s1  == IF ~IsNull(s.playbackBaseTime) /\ buf # NoBuf
                    THEN [s EXCEPT !.progress = TimelinePosition(s, buf)]
                    ELSE s
         IN  Request(s1, "suspend", "togglePlay")
    ELSE LET s1 == [s EXCEPT !.playbackBaseTime = Some(s.now)]
             s2 == restartSourcesAt(s1, 0)
         IN  Request(s2, "resume", "togglePlay")

togglePlay(s) ==
    IF s.audioCtx = "null" THEN s
    ELSE IF s.isPlaying
    THEN LET buf == BufferOf(s, s.active)
             s1  == IF ~IsNull(s.playbackBaseTime) /\ buf # NoBuf
                    THEN [s EXCEPT !.progress = TimelinePosition(s, buf)]
                    ELSE s
         IN  Request(s1, "suspend", "togglePlay")
    ELSE LET s1 == [s EXCEPT !.playbackBaseTime = Some(s.now - OrZero(s.progress))]
             s2 == restartSourcesAt(s1, OrZero(s.progress))
         IN  Request(s2, "resume", "togglePlay")

onScrub(s) ==
    restartSourcesAt([s EXCEPT !.isScrubbing = TRUE], OrZero(s.progress))

onScrubEnd(s) ==
    LET s1 == [s EXCEPT !.isScrubbing = FALSE,
                        !.playbackBaseTime =
                            IF s.audioCtx # "null"
                            THEN Some(s.now - OrZero(s.progress)) ELSE None]
    IN  IF s.audioCtx = "suspended" /\ s.isPlaying
        THEN Request(s1, "resume", "none") ELSE s1

\* Whether a run of tick writes progress.
TickWrites(s) ==
    /\ s.audioCtx # "null"
    /\ ~s.isScrubbing
    /\ BufferOf(s, s.active) # NoBuf
    /\ ~IsNull(s.playbackBaseTime)

\* tick writing progress also while the slider is dragged.
tick_WritesWhileScrubbing(s) ==
    IF s.audioCtx = "null" THEN s
    ELSE LET buf == BufferOf(s, s.active)
             s1  == IF buf # NoBuf /\ ~IsNull(s.playbackBaseTime)
                    THEN [s EXCEPT !.progress = TimelinePosition(s, buf)]
                    ELSE s
         IN  RequestFrame(s1)

tick(s) ==
    IF s.audioCtx = "null" THEN s
    ELSE LET s1 == IF TickWrites(s)
                   THEN [s EXCEPT !.progress =
                            TimelinePosition(s, BufferOf(s, s.active))]
                   ELSE s
         IN  RequestFrame(s1)

\* The rest of onMounted once the last buffer has loaded.
FinishMount(s) ==
    LET s1 == updateProgressMax(s)
        s2 == restartSourcesAt(s1, OrZero(s1.progress))
        s3 == Request(s2, "resume", "onMounted")
    IN  RequestFrame(s3)

onUnmounted(s) ==
    LET s1 == IF s.rafId # 0
              THEN [s EXCEPT !.rafPending = IF @ > 0 THEN @ - 1 ELSE 0]
              ELSE s
        s2 == stopAndDisconnect(stopAndDisconnect(s1, "above"), "below")
    IN  IF s2.audioCtx # "null" THEN [s2 EXCEPT !.audioCtx = "closed"] ELSE s2

\* The callbacks attached to a suspend()/resume() promise.
OnResolved(s, req) ==
    IF req.then = "onMounted"
    THEN [s EXCEPT !.isPlaying = TRUE,
                   !.playbackBaseTime = Some(s.now - OrZero(s.progress))]
    ELSE IF req.then = "togglePlay"
    THEN [s EXCEPT !.isPlaying = (req.kind = "resume")]
    ELSE s

OnRejected(s, req) ==
    IF req.then = "onMounted" THEN [s EXCEPT !.isPlaying = FALSE] ELSE s

\* The onended handler of a splash source: both nodes are disconnected, and
\* a node that has ended and is connected to nothing leaves the graph.
\* An onended handler that disconnects nothing.
OnSplashEnded_KeepsConnected(sp) == sp

OnSplashEnded(sp) == [sp EXCEPT !.connected = FALSE]

\* ------------------------------------------------------------ actions
Mounted == pc # "start" /\ ~unmounted

\* The values the fade slider's model is given: the default, the shortest
\* fade, zero, a negative number, and a value that is not a finite number.
FadeValues == {[finite |-> TRUE, ms |-> DefaultFadeMs],
               [finite |-> TRUE, ms |-> 1],
               [finite |-> TRUE, ms |-> 0],
               [finite |-> TRUE, ms |-> -1],
               [finite |-> FALSE, ms |-> 0]}

\* The state setup() leaves.
Constructed ==
    /\ active = "above"
    /\ fadeDuration = [finite |-> TRUE, ms |-> DefaultFadeMs]
    /\ isPlaying = FALSE
    /\ progress = 0
    /\ progressMax = DefaultProgressMax
    /\ progressEnabled = FALSE
    /\ isScrubbing = FALSE
    /\ audioCtx = "null"
    /\ aboveBuffer = NoBuf
    /\ belowBuffer = NoBuf
    /\ splashBuffer = NoBuf
    /\ aboveSource = None
    /\ belowSource = None
    /\ aboveGain = None
    /\ belowGain = None
    /\ playbackBaseTime = None
    /\ rafId = 0
    /\ now = 0
    /\ pending = <<>>
    /\ playing = [t \in Tracks |-> 0]
    /\ splashes = <<>>
    /\ rafPending = 0
    /\ pc = "start"
    /\ unmounted = FALSE

Init == Constructed /\ sincePause = "untracked"

\* The same start, with the pause history recorded.
InitPause == Constructed /\ sincePause = "no"

\* The history after a handler has run.
Track(v) == IF sincePause = "untracked" THEN sincePause ELSE v

\* loadBuffer: the decoded buffer, or null when the fetch or the decoding
\* failed (the error is caught and logged).
loadBuffer(ok, duration) == IF ok THEN duration ELSE NoBuf

\* onMounted up to its first await: the context is created (suspended until
\* a resume is granted), or the constructor throws and the callback ends.
MountStart ==
    /\ pc = "start"
    /\ \E ok \in BOOLEAN :
        /\ audioCtx' = IF ok THEN "suspended" ELSE "null"
        /\ pc' = IF ok THEN "loadAbove" ELSE "failed"
    /\ UNCHANGED <<active, fadeDuration, isPlaying, progress, progressMax,
                   progressEnabled, isScrubbing, aboveBuffer, belowBuffer,
                   splashBuffer, aboveSource, belowSource, aboveGain, belowGain,
                   playbackBaseTime, rafId, platformVars, unmounted, sincePause>>

\* An awaited loadBuffer settles, with the buffer or with null.
LoadAbove ==
    /\ pc = "loadAbove"
    /\ \E ok \in BOOLEAN :
        Set([Cur EXCEPT !.aboveBuffer = loadBuffer(ok, FileDuration.above)])
    /\ pc' = "loadBelow"
    /\ UNCHANGED <<unmounted, sincePause>>

LoadBelow ==
    /\ pc = "loadBelow"
    /\ \E ok \in BOOLEAN :
        Set([Cur EXCEPT !.belowBuffer = loadBuffer(ok, FileDuration.below)])
    /\ pc' = "loadSplash"
    /\ UNCHANGED <<unmounted, sincePause>>

LoadSplash ==
    /\ pc = "loadSplash"
    /\ \E ok \in BOOLEAN :
        LET s == FinishMount([Cur EXCEPT !.splashBuffer = loadBuffer(ok, FileDuration.splash)])
        IN  WithinBounds(s) /\ Set(s)
    /\ pc' = "done"
    /\ UNCHANGED <<unmounted, sincePause>>

Tick ==
    /\ rafPending > 0
    /\ LET s == [Cur EXCEPT !.rafPending = @ - 1]
       IN  Set(tick(s))
    /\ UNCHANGED <<pc, unmounted, sincePause>>

Crossfade ==
    /\ Mounted
    /\ LET s == crossfade(Cur) IN WithinBounds(s) /\ Set(s)
    /\ UNCHANGED <<pc, unmounted, sincePause>>

TogglePlay ==
    /\ Mounted
    /\ LET s == togglePlay(Cur) IN WithinBounds(s) /\ Set(s)
    /\ sincePause' = Track(IF audioCtx = "null" THEN sincePause
                           ELSE IF isPlaying /\ pc = "done" THEN "yes" ELSE "no")
    /\ UNCHANGED <<pc, unmounted>>

\* The slider values the model tries: both ends, and a value between the
\* lengths of the two loops.
SliderStops == {0, FileDuration.above + 1, progressMax}

\* An input event of the progress slider: v-model writes the slider's value
\* to progress, then onScrub runs.
OnScrub ==
    /\ Mounted
    /\ \E v \in SliderStops :
        Set(onScrub([Cur EXCEPT !.progress = v]))
    /\ sincePause' = Track("no")
    /\ UNCHANGED <<pc, unmounted>>

OnScrubEnd ==
    /\ Mounted
    /\ LET s == onScrubEnd(Cur) IN WithinBounds(s) /\ Set(s)
    /\ sincePause' = Track("no")
    /\ UNCHANGED <<pc, unmounted>>

\* The fade slider: v-model writes fadeDuration.
SetFadeDuration ==
    /\ Mounted
    /\ \E v \in FadeValues \ {fadeDuration} : Set([Cur EXCEPT !.fadeDuration = v])
    /\ UNCHANGED <<pc, unmounted, sincePause>>

Unmount ==
    /\ Mounted
    /\ Set(onUnmounted(Cur))
    /\ unmounted' = TRUE
    /\ UNCHANGED <<pc, sincePause>>

\* The oldest suspend()/resume() promise resolves: the context changes
\* state and the promise's then-callback runs.
Resolve ==
    /\ pending # <<>>
    /\ audioCtx \in {"suspended", "running"}
    /\ LET req == Head(pending)
           s   == [Cur EXCEPT !.pending = Tail(@),
                              !.audioCtx = IF req.kind = "resume"
                                           THEN "running" ELSE "suspended"]
       IN  Set(OnResolved(s, req))
    /\ UNCHANGED <<pc, unmounted, sincePause>>

\* The oldest promise is rejected: the context is closed, or it is suspended
\* and the browser refuses to start it (autoplay blocked).  The context
\* keeps its state and the catch-callback runs.
Reject ==
    /\ pending # <<>>
    /\ \/ audioCtx = "closed"
       \/ audioCtx = "suspended" /\ Head(pending).kind = "resume"
    /\ LET req == Head(pending)
           s   == [Cur EXCEPT !.pending = Tail(@)]
       IN  Set(OnRejected(s, req))
    /\ UNCHANGED <<pc, unmounted, sincePause>>

RenderRef(ref, t) == IF IsNull(ref) THEN ref ELSE Some(Render(Val(ref), t))

\* One millisecond of audio is rendered: the clock of a running context
\* advances and the gains follow their automation.
Advance ==
    /\ audioCtx = "running"
    /\ now < MaxTime
    /\ Set([Cur EXCEPT !.now = now + 1,
                       !.aboveGain = RenderRef(@, now + 1),
                       !.belowGain = RenderRef(@, now + 1)])
    /\ UNCHANGED <<pc, unmounted, sincePause>>

\* The oldest splash source reaches the end of its buffer: onended runs.
SplashEnded ==
    /\ audioCtx = "running"
    /\ splashes # <<>>
    /\ LET sp == OnSplashEnded([Head(splashes) EXCEPT !.ended = TRUE])
       IN  Set([Cur EXCEPT !.splashes =
                   IF sp.connected THEN <<sp>> \o Tail(@) ELSE Tail(@)])
    /\ UNCHANGED <<pc, unmounted, sincePause>>

\* The page as the repository runs it: the application is mounted and never
\* unmounted, and the fade slider stays at its default.
Next ==
    \/ MountStart \/ LoadAbove \/ LoadBelow \/ LoadSplash
    \/ Resolve \/ Reject \/ Advance \/ SplashEnded \/ Tick
    \/ OnScrubEnd \/ OnScrub \/ TogglePlay \/ Crossfade

Spec == Init /\ [][Next]_vars

\* The component with its unmount hook: onUnmounted may run at any point
\* after onMounted has started, also while it awaits a buffer.
NextLifecycle == Next \/ Unmount

SpecLifecycle == Init /\ [][NextLifecycle]_vars

\* The page with the pause history recorded: the same steps as Spec.
SpecPause == InitPause /\ [][Next]_vars

\* The page of a user who moves the fade slider, switches the tracks and
\* plays and pauses, and leaves the progress slider alone.
NextFade ==
    \/ MountStart \/ LoadAbove \/ LoadBelow \/ LoadSplash
    \/ Resolve \/ Reject \/ Advance \/ SplashEnded \/ Tick
    \/ SetFadeDuration \/ TogglePlay \/ Crossfade

SpecFade == Init /\ [][NextFade]_vars

\* ------------------------------------------------------------- claims
Loaded(track) == BufferOf(Cur, track) # NoBuf
TargetOf(s, track) == IF s.active = track THEN GainOne ELSE 0

\* C1: every gain node that exists ends at 1 (its value when no ramp is
\* pending, otherwise the target of the pending ramp) when its track is the
\* active one, and at 0 otherwise.
C1_GainTargetFollowsActive ==
    \A track \in Tracks :
        ~IsNull(GainOf(Cur, track)) =>
            FinalValue(Val(GainOf(Cur, track))) = TargetOf(Cur, track)

\* A crossfade has flipped active to "below" while both tracks play, and the
\* gains have been rendered part of the way down their ramps.
C1_Witness ==
    /\ active = "below"
    /\ ~IsNull(aboveGain) /\ ~IsNull(belowGain)
    /\ RampPending(Val(aboveGain)) /\ RampPending(Val(belowGain))
    /\ Val(aboveGain).value \notin {0, GainOne}
    /\ now > 0

\* The looping source restartSourcesAt starts for a loaded buffer at time t.
FreshSource(offset, duration, t) ==
    [start |-> t, off |-> WrapOffset(offset, duration), loop |-> TRUE,
     stopped |-> FALSE, connected |-> TRUE]

\* What s holds for one track right after restartSourcesAt(offset) has run
\* at the present time: one running source and one gain when the buffer is
\* loaded, nothing otherwise.
RestartedAt(s, track, offset) ==
    IF BufferOf(s, track) # NoBuf
    THEN /\ SourceOf(s, track) =
                Some(FreshSource(offset, BufferOf(s, track), now))
         /\ GainOf(s, track) = Some(NewGain(TargetOf(s, track)))
         /\ s.playing[track] = 1
    ELSE /\ IsNull(SourceOf(s, track))
         /\ IsNull(GainOf(s, track))
         /\ s.playing[track] = 0

ToggleRequest(kind) == [kind |-> kind, then |-> "togglePlay"]

\* What one call of togglePlay does, from any reachable state.
C2_Call ==
    LET s == togglePlay(Cur)
    IN  /\ audioCtx = "null" => s = Cur
        /\ audioCtx # "null" /\ isPlaying =>
              /\ s.pending = Append(pending, ToggleRequest("suspend"))
              /\ s.isPlaying = isPlaying
              /\ s.audioCtx = audioCtx
              /\ s.aboveSource = aboveSource /\ s.belowSource = belowSource
        /\ audioCtx # "null" /\ ~isPlaying =>
              /\ s.pending = Append(pending, ToggleRequest("resume"))
              /\ s.isPlaying = isPlaying
              /\ s.audioCtx = audioCtx
              /\ \A track \in Tracks : RestartedAt(s, track, progress)

\* What settles isPlaying: the requests of togglePlay when they resolve, and
\* nothing when they are rejected; no other step changes isPlaying but the
\* settling of onMounted's own resume request.
C2_Step ==
    /\ TogglePlay => isPlaying' = isPlaying
    /\ pending # <<>> /\ Head(pending).then = "togglePlay" =>
          /\ Resolve => isPlaying' = (Head(pending).kind = "resume")
          /\ Reject => isPlaying' = isPlaying
    /\ isPlaying' # isPlaying =>
          /\ pending # <<>>
          /\ Head(pending).then \in {"togglePlay", "onMounted"}
          /\ Resolve \/ (Reject /\ Head(pending).then = "onMounted")

\* C2: togglePlay requests a suspend when playing and restarts the sources at
\* progress and requests a resume when not; isPlaying changes only when the
\* request resolves, keeps its value when it is rejected, and togglePlay
\* changes nothing without an audio context.
C2_TogglePlaySettlesOnResolve == []C2_Call /\ [][C2_Step]_vars

\* A pause has taken effect: togglePlay's suspend request resolved after the
\* loops had been playing, and a second togglePlay has requested a resume.
C2_Witness ==
    /\ pc = "done"
    /\ ~isPlaying
    /\ audioCtx = "suspended"
    /\ now > 0
    /\ pending = <<ToggleRequest("resume")>>
    /\ playing = [t \in Tracks |-> 1]

\* The offsets and durations the wrapping of createLoopingNodes is tried on.
WrapOffsets   == (-25 .. 25) \cup {-DefaultProgressMax, DefaultProgressMax}
WrapDurations == {FileDuration.above, FileDuration.below}

\* The wrapped offset lies inside the buffer and is the offset itself, a
\* whole number of buffer lengths away; also for a negative offset and for
\* one at or past the duration.  The wrapping reads no variable, so it is
\* checked once, in the initial state.
WrapsIntoBuffer ==
    \A off \in WrapOffsets, d \in WrapDurations :
        /\ WrapOffset(off, d) \in 0 .. (d - 1)
        /\ (WrapOffset(off, d) - off) % d = 0

\* C3: onScrub with an audio context stops the looping sources there are and
\* starts one new looping source per loaded buffer at the wrapped offset
\* progress, with gain 1 for the active track and 0 for the other, and sets
\* playbackBaseTime to currentTime - progress; without an audio context it
\* changes only isScrubbing.
C3_ScrubRestartsAtProgress ==
    /\ pc = "start" => WrapsIntoBuffer
    /\ \A v \in SliderStops :
        LET s0 == [Cur EXCEPT !.progress = v]
            s  == onScrub(s0)
        IN  IF audioCtx = "null"
            THEN s = [s0 EXCEPT !.isScrubbing = TRUE]
            ELSE /\ \A track \in Tracks : RestartedAt(s, track, v)
                 /\ s.playbackBaseTime = Some(now - v)
                 /\ s = [s0 EXCEPT !.isScrubbing = TRUE,
                                   !.aboveSource = s.aboveSource,
                                   !.belowSource = s.belowSource,
                                   !.aboveGain = s.aboveGain,
                                   !.belowGain = s.belowGain,
                                   !.playing = s.playing,
                                   !.playbackBaseTime = s.playbackBaseTime]

\* The slider was dragged to its end, past the length of above.wav, after
\* the clock had advanced: both sources were restarted, above at the wrapped
\* offset.
C3_Witness ==
    /\ isScrubbing
    /\ now > 0
    /\ progress >= FileDuration.above
    /\ aboveSource = Some(FreshSource(progress, FileDuration.above, now))
    /\ Val(aboveSource).off # progress
    /\ ~IsNull(belowSource)
    /\ playbackBaseTime = Some(now - progress)

\* What the model holds for a track matches its buffer: a source, a gain and
\* a started source exist only for a loaded buffer.
NothingForMissingBuffer ==
    /\ \A track \in Tracks :
          ~Loaded(track) =>
              /\ IsNull(SourceOf(Cur, track))
              /\ IsNull(GainOf(Cur, track))
              /\ playing[track] = 0
    /\ splashBuffer = NoBuf => splashes = <<>>

\* onMounted has run to its end: the progress bounds are those of the active
\* buffer, every loaded buffer has its running source and the animation loop
\* is going.
MountRanToEnd ==
    pc = "done" =>
        /\ progressEnabled = Loaded(active)
        /\ progressMax = updateProgressMax(Cur).progressMax
        /\ \A track \in Tracks : playing[track] = IF Loaded(track) THEN 1 ELSE 0
        /\ rafId # 0
        /\ rafPending = 1

\* The state a handler returns holds nodes for loaded buffers only.
WellFormed(s) ==
    /\ \A track \in Tracks :
          BufferOf(s, track) = NoBuf =>
              /\ IsNull(SourceOf(s, track))
              /\ IsNull(GainOf(s, track))
              /\ s.playing[track] = 0
    /\ s.splashBuffer = NoBuf => s.splashes = <<>>
    /\ s.progress \in Int
    /\ s.progressMax \in Int

\* Whatever the last load gives, the rest of onMounted runs: the bounds are
\* set, the sources created, the resume requested and the first frame
\* requested.
MountEndsWhateverLoaded ==
    pc = "loadSplash" =>
        \A ok \in BOOLEAN :
            LET s == FinishMount([Cur EXCEPT !.splashBuffer =
                                      loadBuffer(ok, FileDuration.splash)])
            IN  /\ WellFormed(s)
                /\ s.progressEnabled = Loaded(active)
                /\ \A track \in Tracks : s.playing[track] = IF Loaded(track) THEN 1 ELSE 0
                /\ s.pending = Append(pending, [kind |-> "resume", then |-> "onMounted"])
                /\ s.rafPending = rafPending + 1

\* Every handler, and the animation tick, returns a state from every state
\* the page can be in, whichever buffers are missing.
HandlersComplete ==
    Mounted =>
        /\ WellFormed(crossfade(Cur))
        /\ WellFormed(togglePlay(Cur))
        /\ \A v \in SliderStops : WellFormed(onScrub([Cur EXCEPT !.progress = v]))
        /\ WellFormed(onScrubEnd(Cur))
        /\ WellFormed(tick(Cur))

\* C4: a file that fails to load gives a null buffer; onMounted still runs to
\* its end, no source or gain is created for a missing buffer, and crossfade,
\* togglePlay, onScrub and onScrubEnd complete for every combination of
\* missing buffers.
C4_MissingBuffersTolerated ==
    /\ NothingForMissingBuffer
    /\ MountRanToEnd
    /\ MountEndsWhateverLoaded
    /\ HandlersComplete

\* All three files are missing, onMounted has ended, and the handlers have
\* run: crossfade (active is "below"), togglePlay (the context runs and
\* isPlaying is set) and onScrub.
C4_Witness ==
    /\ pc = "done"
    /\ aboveBuffer = NoBuf /\ belowBuffer = NoBuf /\ splashBuffer = NoBuf
    /\ active = "below"
    /\ isPlaying /\ audioCtx = "running"
    /\ isScrubbing
    /\ rafPending = 1

\* C5: whenever the animation tick writes progress, the value written is
\* the position of the active track's looping source inside its buffer.
C5_TickWritesPlaybackPosition ==
    rafPending > 0 /\ TickWrites(Cur) =>
        /\ ~IsNull(SourceOf(Cur, active))
        /\ tick(Cur).progress =
               PlaybackPosition(Val(SourceOf(Cur, active)),
                                BufferOf(Cur, active), now)

NewSplash == [loop |-> FALSE, gain |-> GainOne, connected |-> TRUE, ended |-> FALSE]

\* The gain of a track, when there is one, ends with a ramp to target that
\* is due at time t.
RampsTo(s, track, target, t) ==
    ~IsNull(GainOf(s, track)) =>
        LET ev == Val(GainOf(s, track)).events
        IN  /\ ev # <<>>
            /\ ev[Len(ev)] = [type |-> "ramp", value |-> target, time |-> t]

\* C6: a crossfade with an audio context and a loaded splash buffer starts
\* exactly one new non-looping splash source at gain 1, and a splash source
\* is disconnected once it has ended; without the splash buffer or without a
\* context no splash source is created, and the crossfade still flips active
\* and schedules the ramps.
C6_OneSplashPerCrossfade ==
    /\ LET s == crossfade(Cur)
       IN  /\ s.splashes = IF audioCtx # "null" /\ splashBuffer # NoBuf
                           THEN Append(splashes, NewSplash)
                           ELSE splashes
           /\ s.active = Other(active)
           /\ \A track \in Tracks :
                 RampsTo(s, track, TargetOf(s, track),
                         (IF audioCtx # "null" THEN now ELSE 0)
                             + RampLength(fadeDuration))
    /\ \A i \in 1 .. Len(splashes) :
          /\ splashes[i] = NewSplash
          /\ audioCtx # "null" /\ splashBuffer # NoBuf

\* A crossfade has started a splash source next to the two playing loops,
\* the clock has advanced, and the gains ramp towards "below".
C6_Witness ==
    /\ splashes = <<NewSplash>>
    /\ active = "below"
    /\ audioCtx = "running"
    /\ now > 0
    /\ RampsTo(Cur, "above", 0, now - 1 + RampLength(fadeDuration))
    /\ ~IsNull(aboveGain) /\ ~IsNull(belowGain)

\* C7: whenever no suspend or resume request is pending, isPlaying is true
\* exactly when the audio context is running (so a pause that has taken
\* effect lasts until the next togglePlay).
C7_PlayingIffRunning ==
    pending = <<>> => (isPlaying <=> audioCtx = "running")

\* C8: once onUnmounted has run, no animation-frame callback is pending and
\* no looping source is left started, wherever onMounted stood when it ran.
C8_UnmountStopsEverything ==
    unmounted =>
        /\ rafPending = 0
        /\ \A track \in Tracks : playing[track] = 0

\* C9: each track has at most one looping source started and not stopped,
\* and it is the one the track's variable refers to.
C9_OneLoopPerTrack ==
    \A track \in Tracks :
        /\ playing[track] <= 1
        /\ playing[track] = 1 =>
              /\ ~IsNull(SourceOf(Cur, track))
              /\ ~Val(SourceOf(Cur, track)).stopped

\* While onMounted still awaits splash.wav, togglePlay has resumed the
\* context and onScrub has restarted both loops at a later time: each track
\* still has a single running source.
C9_Witness ==
    /\ pc = "loadSplash"
    /\ isScrubbing
    /\ isPlaying
    /\ now > 0
    /\ playing = [t \in Tracks |-> 1]
    /\ Val(aboveSource).start = now

\* C10: crossfade leaves the looping sources, the gain nodes' identity, the
\* base time, isPlaying and isScrubbing alone; of the script's variables it
\* changes only active, the progress bounds with a clamped progress, and the
\* schedules of the gains there are.
C10_CrossfadeKeepsSources ==
    LET s  == crossfade(Cur)
        s1 == updateProgressMax([Cur EXCEPT !.active = Other(active)])
    IN  /\ s.aboveSource = aboveSource
        /\ s.belowSource = belowSource
        /\ s.playing = playing
        /\ \A track \in Tracks :
              /\ IsNull(GainOf(s, track)) = IsNull(GainOf(Cur, track))
              /\ ~IsNull(GainOf(Cur, track)) =>
                    Val(GainOf(s, track)).value = Val(GainOf(Cur, track)).value
        /\ s.playbackBaseTime = playbackBaseTime
        /\ s.isPlaying = isPlaying
        /\ s.isScrubbing = isScrubbing
        /\ s.active = Other(active)
        /\ s.progressMax = s1.progressMax
        /\ s.progressEnabled = s1.progressEnabled
        /\ s.progress = IF progress > s1.progressMax THEN s1.progressMax ELSE progress
        /\ s = [Cur EXCEPT !.active = s.active,
                           !.progressMax = s.progressMax,
                           !.progressEnabled = s.progressEnabled,
                           !.progress = s.progress,
                           !.aboveGain = s.aboveGain,
                           !.belowGain = s.belowGain,
                           !.splashes = s.splashes,
                           !.pending = s.pending]

\* Crossfades have run while both loops play from a scrubbed offset: active
\* is "below", progress was clamped to the new bound, and the sources are
\* the ones onScrub started earlier.
C10_Witness ==
    /\ active = "below"
    /\ ~IsNull(aboveSource) /\ ~IsNull(belowSource)
    /\ Val(aboveSource).start < now
    /\ Val(aboveSource).off # 0
    /\ playing = [t \in Tracks |-> 1]
    /\ RampPending(Val(aboveGain))
    /\ isScrubbing

\* A togglePlay call is about to resume what an earlier togglePlay call
\* paused, with no scrub event in between.
ResumesAfterPause ==
    /\ sincePause = "yes"
    /\ ~isPlaying
    /\ audioCtx # "null"

\* C11 as stated: resuming after a pause, with no scrub in between, restarts
\* the active track at the offset progress and sets the base time to match,
\* and the next tick writes the progress value there was before the resume.
C11_ResumeKeepsProgress ==
    ResumesAfterPause /\ ~isScrubbing =>
        LET s == togglePlay(Cur)
        IN  /\ s.progress = progress
            /\ s.playbackBaseTime = Some(now - progress)
            /\ Loaded(active) =>
                  /\ ~IsNull(SourceOf(s, active))
                  /\ Val(SourceOf(s, active)).start = now
                  /\ Val(SourceOf(s, active)).off = progress
                  /\ tick(s).progress = progress

\* C11 amended: the active track restarts at progress wrapped into its
\* buffer, the base time is currentTime - progress, and the next tick writes
\* the wrapped value, which is the source's position; it is progress itself
\* when progress is below the buffer's duration.
C11_ResumeWrapsProgress ==
    ResumesAfterPause =>
        LET s   == togglePlay(Cur)
            dur == BufferOf(Cur, active)
        IN  /\ s.progress = progress
            /\ s.playbackBaseTime = Some(now - progress)
            /\ \A track \in Tracks : RestartedAt(s, track, progress)
            /\ Loaded(active) =>
                  /\ Val(SourceOf(s, active)).off = progress % dur
                  /\ tick(s).progress =
                        IF isScrubbing THEN progress ELSE progress % dur
                  /\ ~isScrubbing =>
                        tick(s).progress =
                            PlaybackPosition(Val(SourceOf(s, active)), dur, now)
                  /\ progress < dur => tick(s).progress = progress

\* A pause has taken effect at a position past the start of the loop, and
\* nothing has been scrubbed since: the next togglePlay resumes from there.
C11_Witness ==
    /\ ResumesAfterPause
    /\ audioCtx = "suspended"
    /\ pending = <<>>
    /\ ~isScrubbing
    /\ Loaded(active)
    /\ progress > 0
    /\ progress < BufferOf(Cur, active)
    /\ now > 0

\* C12: in every reachable state progress lies between 0 and progressMax.
C12_ProgressWithinBounds == 0 <= progress /\ progress <= progressMax

\* C13: once onMounted has set the progress bounds, progressEnabled tells
\* whether the active track's buffer is loaded, and progressMax is that
\* buffer's duration, but at least 0.01 s, or 1 s when the buffer is missing.
C13_BoundsFollowActive ==
    pc = "done" =>
        /\ progressEnabled = Loaded(active)
        /\ Loaded(active) =>
              /\ progressMax >= BufferOf(Cur, active)
              /\ progressMax >= MinProgressMax
              /\ progressMax \in {BufferOf(Cur, active), MinProgressMax}
        /\ ~Loaded(active) => progressMax = DefaultProgressMax

\* Crossfades have gone from "above" to "below" and back while the loops
\* play: the bounds are again those of above.wav, which is shorter than
\* 0.01 s.
C13_Witness ==
    /\ pc = "done"
    /\ active = "above"
    /\ Loaded("above") /\ Loaded("below")
    /\ progressEnabled
    /\ progressMax = MinProgressMax
    /\ progressMax > BufferOf(Cur, "above")
    /\ ~IsNull(aboveGain) /\ RampPending(Val(aboveGain))
    /\ now > 0

\* What two crossfade calls in a row leave, from the present state.
CrossfadeTwice == crossfade(crossfade(Cur))

\* The schedule crossfade leaves on a gain: the present value held at the
\* time of the call, then a linear ramp to the target.
RampFromCurrent(g, target, t, len) ==
    << [type |-> "set", value |-> g.value, time |-> t],
       [type |-> "ramp", value |-> target, time |-> t + len] >>

\* C14: two consecutive crossfade calls restore active, progressMax and
\* progressEnabled and the ramp target of every gain there is, and the
\* second call leaves on each gain a single ramp that starts from the
\* gain's present value.
C14_DoubleCrossfadeRestores ==
    Mounted =>
        /\ CrossfadeTwice.active = active
        /\ CrossfadeTwice.progressMax = progressMax
        /\ CrossfadeTwice.progressEnabled = progressEnabled
        /\ \A track \in Tracks :
              /\ IsNull(GainOf(CrossfadeTwice, track)) = IsNull(GainOf(Cur, track))
              /\ ~IsNull(GainOf(Cur, track)) =>
                    /\ FinalValue(Val(GainOf(CrossfadeTwice, track)))
                          = FinalValue(Val(GainOf(Cur, track)))
                    /\ Val(GainOf(CrossfadeTwice, track)).events =
                          RampFromCurrent(Val(GainOf(Cur, track)),
                                          TargetOf(Cur, track), now,
                                          RampLength(fadeDuration))

\* The ramp length the claim gives for a value of the fade slider, in ms.
ClaimedRampLength(fd) ==
    IF ~fd.finite THEN 1000
    ELSE IF fd.ms < 1 THEN 1
    ELSE fd.ms

\* C15: the ramps one crossfade call schedules on the gains there are start
\* at the time of the call and end together, strictly later: after
\* fadeDuration ms, but at least 1 ms, and after 1000 ms when fadeDuration is
\* not a finite number.
C15_RampsStartAndEndTogether ==
    LET s == crossfade(Cur)
        t == IF audioCtx # "null" THEN now ELSE 0
    IN  /\ ClaimedRampLength(fadeDuration) > 0
        /\ \A track \in Tracks :
              ~IsNull(GainOf(s, track)) =>
                  LET ev == Val(GainOf(s, track)).events
                  IN  /\ Len(ev) = 2
                      /\ ev[1].type = "set" /\ ev[1].time = t
                      /\ ev[2].type = "ramp"
                      /\ ev[2].time = t + ClaimedRampLength(fadeDuration)
                      /\ ev[2].time > ev[1].time

\* A crossfade with the fade slider at zero has run while both loops play,
\* and its two ramps, 1 ms long, have been rendered to their end.
C15_Witness ==
    /\ fadeDuration = [finite |-> TRUE, ms |-> 0]
    /\ active = "below"
    /\ audioCtx = "running"
    /\ now > 0
    /\ aboveGain = Some(NewGain(0))
    /\ belowGain = Some(NewGain(GainOne))

\* The tick leaves progress alone for as long as the slider is dragged.
NoTickWriteWhileScrubbing ==
    isScrubbing => tick(Cur).progress = progress

\* C16 as stated: no tick writes progress between onScrub and the next
\* onScrubEnd, and the first tick after onScrubEnd writes it again.
C16_TickWritesAgainAfterScrub ==
    /\ NoTickWriteWhileScrubbing
    /\ pc = "done" /\ isScrubbing => TickWrites(onScrubEnd(Cur))

\* C16 amended: the first tick after onScrubEnd writes progress when the
\* active track's buffer is loaded, and the value is the slider's, wrapped
\* into the buffer; with the buffer missing the tick writes nothing.
C16_TickHeldWhileScrubbing ==
    /\ NoTickWriteWhileScrubbing
    /\ pc = "done" /\ isScrubbing =>
          /\ TickWrites(onScrubEnd(Cur)) = Loaded(active)
          /\ tick(onScrubEnd(Cur)).progress =
                IF Loaded(active) THEN progress % BufferOf(Cur, active)
                ELSE progress

\* The slider is being dragged while the loops play on: a tick is due, the
\* position it would write has moved away from the dragged value.
C16_Witness ==
    /\ isScrubbing
    /\ rafPending > 0
    /\ audioCtx = "running"
    /\ Loaded(active)
    /\ ~IsNull(playbackBaseTime)
    /\ TimelinePosition(Cur, BufferOf(Cur, active)) # progress

====
